---- MODULE Spec2Model ----
(***************************************************************************)
(* Message-submission pipeline of ai-language-buddy: the MessageHandler    *)
(* class (message-handler, src/unnamed/part_000) together with the parts   *)
(* of app.js that it is wired to (database handle, authentication,         *)
(* saveMessageToFirestore, displayMessage, sign-out).                      *)
(*                                                                         *)
(* Strings are sequences of one-character strings.  An argument passed to  *)
(* addMessage is a record [type, chars]: type is the JavaScript typeof of  *)
(* the argument and chars its characters when it is a string.             *)
(***************************************************************************)
EXTENDS Integers, Sequences, FiniteSets, TLC

\* ---------------------------------------------------------------- bounds
MaxCalls == 1          \* addMessage invocations tracked at the same time
MaxChat == 1           \* message elements in #chat-messages
MaxStore == 1          \* documents in the conversations collection
MaxTicks == 1          \* clock advances in the pipeline specifications
MaxRateTicks == 3      \* clock advances in the rate limiter specification
TicksPerWindow == 2    \* clock advances per rate-limit window (SpecRate)
MaxTokens == 4         \* fragments concatenated into a sanitizer input
MaxPasses == 2         \* processOfflineQueue invocations in progress at once
MaxQueued == 2         \* queue entries ever created
MaxDrainWrites == 3    \* conversation documents written by drain passes
MaxSwitchChecks == 4   \* rate-limit timestamps up to which languages are switched
MaxStreakCalls == 2    \* updateStreak invocations tracked at the same time
MaxDays == 4           \* calendar days
MaxHistory == 24       \* conversation documents stored before the session

\* ------------------------------------------------------ program constants
maxRetries == 3
baseDelay == 1000
backoffMultiplier == 2
maxMessages == 20
windowMs == 60000
MaxMessageLength == 5000
maxRetryCount == 5
historyLimit == 200

\* ---------------------------------------------------------------- strings
Str(s) == [type |-> "string", chars |-> s]
Hola == <<"H", "o", "l", "a">>
Markup == <<"<", "b", ">">>
Blank == <<" ">>
NotAString == [type |-> "undefined", chars |-> <<>>]

UpperLower ==
  { <<"A","a">>, <<"B","b">>, <<"C","c">>, <<"D","d">>, <<"E","e">>,
    <<"F","f">>, <<"G","g">>, <<"H","h">>, <<"I","i">>, <<"J","j">>,
    <<"K","k">>, <<"L","l">>, <<"M","m">>, <<"N","n">>, <<"O","o">>,
    <<"P","p">>, <<"Q","q">>, <<"R","r">>, <<"S","s">>, <<"T","t">>,
    <<"U","u">>, <<"V","v">>, <<"W","w">>, <<"X","x">>, <<"Y","y">>,
    <<"Z","z">> }

ToLower(c) ==
  IF \E p \in UpperLower : p[1] = c
  THEN (CHOOSE p \in UpperLower : p[1] = c)[2]
  ELSE c

IsSpace(c) == c \in {" ", "\t", "\n", "\r"}

IsWordChar(c) ==
  \/ \E p \in UpperLower : c = p[1] \/ c = p[2]
  \/ c \in {"0", "1", "2", "3", "4", "5", "6", "7", "8", "9", "_"}

\* String.prototype.trim().length === 0
IsBlank(s) == \A i \in 1..Len(s) : IsSpace(s[i])

\* ------------------------------------------------------------- validator
\* the validator without the test of the sender
validateMessageInputs_AnySender(message, sender) ==
  IF message.type # "string" \/ message.chars = <<>> \/ IsBlank(message.chars)
  THEN "Message must be a non-empty string"
  ELSE IF Len(message.chars) > MaxMessageLength
  THEN "Message exceeds maximum length"
  ELSE "ok"

\* the validator with the length test written >= instead of >
validateMessageInputs_AtLeast(message, sender) ==
  IF message.type # "string" \/ message.chars = <<>> \/ IsBlank(message.chars)
  THEN "Message must be a non-empty string"
  ELSE IF sender \notin {"user", "ai"}
  THEN "Sender must be either user or ai"
  ELSE IF Len(message.chars) >= MaxMessageLength
  THEN "Message exceeds maximum length"
  ELSE "ok"

\* validateMessageInputs: the error it throws, or "ok"
validateMessageInputs(message, sender) ==
  IF message.type # "string" \/ message.chars = <<>> \/ IsBlank(message.chars)
  THEN "Message must be a non-empty string"
  ELSE IF sender \notin {"user", "ai"}
  THEN "Sender must be either user or ai"
  ELSE IF Len(message.chars) > MaxMessageLength
  THEN "Message exceeds maximum length"
  ELSE "ok"

\* ------------------------------------------------------------- sanitizer
\* temp.textContent = message; temp.innerHTML  (HTML serialisation of text)
EscapeChar(c) ==
  CASE c = "&" -> <<"&", "a", "m", "p", ";">>
    [] c = "<" -> <<"&", "l", "t", ";">>
    [] c = ">" -> <<"&", "g", "t", ";">>
    [] OTHER -> <<c>>

RECURSIVE EscapeHtml(_)
EscapeHtml(s) ==
  IF s = <<>> THEN <<>> ELSE EscapeChar(Head(s)) \o EscapeHtml(Tail(s))

dangerousSchemes ==
  << <<"j","a","v","a","s","c","r","i","p","t",":">>,
     <<"d","a","t","a",":">>,
     <<"v","b","s","c","r","i","p","t",":">>,
     <<"f","i","l","e",":">>,
     <<"f","t","p",":">> >>

\* new RegExp(scheme, 'gi') matches at the start of s
MatchesAt(s, pat) ==
  /\ Len(s) >= Len(pat)
  /\ \A i \in 1..Len(pat) : ToLower(s[i]) = pat[i]

\* sanitized.replace(new RegExp(scheme, 'gi'), '')
RECURSIVE RemoveAll(_, _)
RemoveAll(s, pat) ==
  IF s = <<>> THEN <<>>
  ELSE IF MatchesAt(s, pat)
       THEN RemoveAll(SubSeq(s, Len(pat) + 1, Len(s)), pat)
       ELSE <<Head(s)>> \o RemoveAll(Tail(s), pat)

RECURSIVE RemoveSchemes(_, _)
RemoveSchemes(s, k) ==
  IF k > Len(dangerousSchemes) THEN s
  ELSE RemoveSchemes(RemoveAll(s, dangerousSchemes[k]), k + 1)

\* length of the longest run of characters satisfying P that starts at i
RunLen(s, i, P(_)) ==
  CHOOSE n \in 0..Len(s) :
    /\ i + n - 1 <= Len(s)
    /\ \A k \in i..(i + n - 1) : P(s[k])
    /\ (i + n > Len(s) \/ ~P(s[i + n]))

\* length of the match of /on\w+\s*=/i at the start of s, 0 when none
EventHandlerLen(s) ==
  IF Len(s) >= 4 /\ ToLower(s[1]) = "o" /\ ToLower(s[2]) = "n"
  THEN LET w == RunLen(s, 3, IsWordChar)
           sp == RunLen(s, 3 + w, IsSpace)
       IN IF w >= 1 /\ 3 + w + sp <= Len(s) /\ s[3 + w + sp] = "="
          THEN 3 + w + sp
          ELSE 0
  ELSE 0

\* sanitized.replace(/on\w+\s*=/gi, '')
RECURSIVE RemoveEventHandlers(_)
RemoveEventHandlers(s) ==
  IF s = <<>> THEN <<>>
  ELSE IF EventHandlerLen(s) > 0
       THEN RemoveEventHandlers(SubSeq(s, EventHandlerLen(s) + 1, Len(s)))
       ELSE <<Head(s)>> \o RemoveEventHandlers(Tail(s))

sanitizeMessage(s) ==
  IF s = <<>> THEN <<>>
  ELSE RemoveEventHandlers(RemoveSchemes(EscapeHtml(s), 1))

\* ---------------------------------------------------------- rate limiter
\* the filter with the window taken in seconds instead of milliseconds
RECURSIVE FilterWindow_Seconds(_, _)
FilterWindow_Seconds(ts, t) ==
  IF ts = <<>> THEN <<>>
  ELSE IF t - Head(ts) < windowMs \div 1000
       THEN <<Head(ts)>> \o FilterWindow_Seconds(Tail(ts), t)
       ELSE FilterWindow_Seconds(Tail(ts), t)

\* rateLimitData.timestamps.filter(timestamp => now - timestamp < windowMs)
RECURSIVE FilterWindow(_, _)
FilterWindow(ts, t) ==
  IF ts = <<>> THEN <<>>
  ELSE IF t - Head(ts) < windowMs
       THEN <<Head(ts)>> \o FilterWindow(Tail(ts), t)
       ELSE FilterWindow(Tail(ts), t)

\* the limit test written with > instead of >=
UnderLimit_OffByOne(n) == ~(n > maxMessages)

\* if (rateLimitData.timestamps.length >= maxMessages) return false
UnderLimit(n) == ~(n >= maxMessages)

\* checkRateLimit with the limit tested on the stored list before the filter
checkRateLimit_Unfiltered(ts, t) ==
  LET kept == FilterWindow(ts, t)
  IN IF UnderLimit(Len(ts))
     THEN [allowed |-> TRUE, timestamps |-> Append(kept, t)]
     ELSE [allowed |-> FALSE, timestamps |-> ts]

\* checkRateLimit that appends to the stored list instead of the filtered one
checkRateLimit_SaveUnpruned(ts, t) ==
  LET kept == FilterWindow(ts, t)
  IN IF UnderLimit(Len(kept))
     THEN [allowed |-> TRUE, timestamps |-> Append(ts, t)]
     ELSE [allowed |-> FALSE, timestamps |-> ts]

\* checkRateLimit at time t on the stored timestamps ts:
\* the result and the timestamps left in local storage
checkRateLimit(ts, t) ==
  LET kept == FilterWindow(ts, t)
  IN IF UnderLimit(Len(kept))
     THEN [allowed |-> TRUE, timestamps |-> Append(kept, t)]
     ELSE [allowed |-> FALSE, timestamps |-> ts]

\* saveWithRetry: delay before the retry that follows failed attempt number a
RECURSIVE Pow(_, _)
Pow(b, e) == IF e = 0 THEN 1 ELSE b * Pow(b, e - 1)

RetryDelay(attempt) == baseDelay * Pow(backoffMultiplier, attempt)

\* ------------------------------------------------------------------ state
VARIABLES
  db,              \* app.js: let db (TRUE once firebase.firestore() is kept)
  window_db,       \* the window.db property read by canSaveToDatabase
  window_auth,     \* window.auth is set
  currentUser,     \* window.auth.currentUser
  messageHandler,  \* window.messageHandler has been constructed
  isOnline,        \* navigator.onLine, mirrored by MessageHandler.isOnline
  now,             \* Date.now()
  rateLimitData,   \* localStorage messageRateLimit: the timestamps
  offlineQueue,    \* MessageHandler.offlineQueue
  storedQueue,     \* localStorage messageOfflineQueue
  chat,            \* children of #chat-messages, oldest first
  store,           \* documents of users/{uid}/conversations, in write order
  calls,           \* addMessage invocations: running and finished
  allowedLog,      \* history: times of the checkRateLimit calls that allowed
  lastCheck,       \* history: the latest direct checkRateLimit call
  passes,          \* processOfflineQueue invocations in progress
  nextId,          \* generateMessageId: number of the next queue entry
  drainLog,        \* conversation documents written by drain passes, in
                   \* write order, each with the entry and pass it came from
  conversationHistoryByLanguage,  \* app.js: messages kept per language
  currentActiveLanguage,          \* app.js: the language tab shown
  historyLoad,     \* the auth state listener and its loadConversationHistory
  conversationHistory,  \* app.js: the context sent to the generative model
  aiCall,          \* the latest getAIResponse invocation
  userDoc,         \* the stats of the users/{uid} profile that updateStreak
                   \* reads and writes
  today,           \* the calendar day of new Date(), counted from 1
  streakCalls,     \* updateStreak invocations of the day
  dawn             \* history: the profile when the day began and the
                   \* number of times its streak changed since

vars ==
  << db, window_db, window_auth, currentUser, messageHandler, isOnline, now,
     rateLimitData, offlineQueue, storedQueue, chat, store, calls,
     allowedLog, lastCheck, passes, nextId, drainLog,
     conversationHistoryByLanguage, currentActiveLanguage, historyLoad,
     conversationHistory, aiCall, userDoc, today, streakCalls, dawn >>

NoUser == "none"
Users == {"u1"}
CallIds == 1..MaxCalls

InputMessages == {Str(Hola), Str(Blank)}
InputSenders == {"user", "ai", "system"}

\* a slot of calls that holds no invocation
IdleCall ==
  [ pc |-> "idle", message |-> NotAString, sender |-> "user",
    shouldAutoSpeak |-> TRUE, text |-> <<>>, windowFull |-> FALSE,
    stamped |-> FALSE, displayed |-> FALSE, attempts |-> 0, writes |-> 0,
    rejected |-> 0, waited |-> <<>>, queued |-> 0, saveIndicator |-> "none",
    result |-> "pending", error |-> "none", online0 |-> FALSE,
    auth0 |-> FALSE, envChanged |-> FALSE, uid |-> NoUser ]

Running == {"animating", "adding", "updating", "delaying"}

NoCheck == [made |-> FALSE, allowed |-> FALSE, recent |-> 0]

\* two of the languages of conversationHistoryByLanguage
Languages == {"Spanish", "French"}

NoHistory == [l \in Languages |-> <<>>]

\* notified: the user the auth state listener last ran for; pc: the
\* loadConversationHistory it scheduled (timer: in setTimeout, reading:
\* awaiting the query); uid: the user the query reads; result: how the latest
\* query ended
NoLoad == [notified |-> NoUser, pc |-> "idle", uid |-> NoUser, result |-> "none"]

\* no getAIResponse invocation.  failed: the request to the model failed;
\* error: what the catch block logged; settled: how the promise of
\* getAIResponse settled; value: what it resolved with
NoAICall ==
  [ pc |-> "idle", targetLanguage |-> "Spanish", failed |-> FALSE,
    error |-> "none", settled |-> "pending", value |-> [kind |-> "none"] ]

\* the stats createUserProfile sets for a new user; lastStreakUpdate is the
\* day of the timestamp, 0 for null
NewProfile == [exists |-> TRUE, streak |-> 0, lastStreakUpdate |-> 0]

\* a profile before the first day: none yet, or the new one
InitialProfiles == { [NewProfile EXCEPT !.exists = e] : e \in BOOLEAN }

StreakCallIds == 1..MaxStreakCalls

\* a slot of streakCalls that holds no invocation.  pc: reading (awaiting
\* userRef.get()), writing (awaiting userRef.update()), done; streak: the
\* value being written; result: how the invocation ended
IdleStreakCall == [pc |-> "idle", streak |-> 0, result |-> "none"]

PassIds == 1..MaxPasses

\* a slot of passes that holds no processOfflineQueue invocation.  live: the
\* array the for-of loop iterates is still this.offlineQueue; arr: that array
\* once another pass has replaced this.offlineQueue; idx: the position of the
\* loop; processed: the ids pushed on `processed`; startId: history, the
\* number the next queue entry would get when the invocation started
IdlePass ==
  [ pc |-> "idle", live |-> TRUE, arr |-> <<>>, idx |-> 0, processed |-> {},
    attempt |-> 0, uid |-> NoUser, language |-> "Spanish", startId |-> 0 ]

InitCommon ==
  /\ db = FALSE
  /\ window_auth = FALSE
  /\ currentUser = NoUser
  /\ messageHandler = FALSE
  /\ isOnline \in BOOLEAN
  /\ now = 0
  /\ rateLimitData = <<>>
  /\ offlineQueue = <<>>
  /\ storedQueue = <<>>
  /\ chat = <<>>
  /\ store = <<>>
  /\ calls = [c \in CallIds |-> IdleCall]
  /\ allowedLog = <<>>
  /\ lastCheck = NoCheck
  /\ passes = [p \in PassIds |-> IdlePass]
  /\ nextId = 1
  /\ drainLog = <<>>
  /\ conversationHistoryByLanguage = NoHistory
  /\ currentActiveLanguage = "Spanish"
  /\ historyLoad = NoLoad
  /\ conversationHistory = <<>>
  /\ aiCall = NoAICall
  /\ userDoc = NewProfile
  /\ today = 1
  /\ streakCalls = [c \in StreakCallIds |-> IdleStreakCall]
  /\ dawn = [doc |-> userDoc, changes |-> 0]

\* The page as src/ ships it: app.js keeps the handle in the script-scoped
\* binding `let db`, which is not a property of window, and nothing assigns
\* window.db.
Init == InitCommon /\ window_db = FALSE

\* The same page when the host document publishes the handle as window.db.
InitBound == InitCommon /\ window_db = TRUE

\* history: a running invocation saw connectivity or authentication change
Disturb(cs) ==
  [c \in CallIds |->
     IF cs[c].pc \in Running THEN [cs[c] EXCEPT !.envChanged = TRUE]
     ELSE cs[c]]

\* ------------------------------------------------------ offline queue drain
\* getTargetLanguage(): the value of the #targetLanguage select, which
\* selectLanguage keeps equal to currentActiveLanguage
getTargetLanguage == currentActiveLanguage

\* the array that pass iterates, q being this.offlineQueue
PassArray(pass, q) == IF pass.live THEN q ELSE pass.arr

\* queuedMessage.retryCount++ on the entry object with that id, seen through
\* the array q that holds it
BumpRetry(q, id) ==
  [k \in DOMAIN q |->
     IF q[k].id = id THEN [q[k] EXCEPT !.retryCount = @ + 1] ELSE q[k]]

\* processOfflineQueue of slot p, with record pass, from the entry at index
\* i on, up to its next await on the network or to its end; q and ps are
\* this.offlineQueue and the other invocations as they are at that point.
\* An entry met while `!db || !window.auth.currentUser` holds gets no write:
\* saveMessageToFirestore returns, saveWithRetry returns, and its id is
\* pushed on processed.  After the last entry this.offlineQueue is replaced
\* by its filter and saved; invocations that iterate the replaced array keep
\* iterating it.
ContinuePass(p, pass, i, q, ps) ==
  LET A == PassArray(pass, q)
  IN IF i <= Len(A) /\ db /\ currentUser # NoUser
     THEN /\ passes' = [ps EXCEPT ![p] =
                          [pass EXCEPT !.pc = "adding", !.idx = i,
                                       !.attempt = 0, !.uid = currentUser,
                                       !.language = getTargetLanguage]]
          /\ offlineQueue' = q
          /\ UNCHANGED storedQueue
     ELSE LET processed == pass.processed \cup {A[k].id : k \in i..Len(A)}
              Keep(msg) == msg.id \notin processed
          IN /\ offlineQueue' = SelectSeq(q, Keep)
             /\ storedQueue' = offlineQueue'
             /\ passes' = [r \in PassIds |->
                             IF r = p THEN IdlePass
                             ELSE IF ps[r].pc # "idle" /\ ps[r].live
                             THEN [ps[r] EXCEPT !.live = FALSE, !.arr = q]
                             ELSE ps[r]]

\* ------------------------------------------------------------ environment
\* initializeApp: db = firebase.firestore(); window.auth = firebase.auth()
InitializeApp ==
  /\ ~db
  /\ db' = TRUE
  /\ window_auth' = TRUE
  /\ UNCHANGED << window_db, currentUser, messageHandler, isOnline, now,
                  rateLimitData, offlineQueue, storedQueue, chat, store,
                  calls, allowedLog, lastCheck,
                  passes, nextId, drainLog,
                  conversationHistoryByLanguage, currentActiveLanguage,
                  historyLoad,
                  conversationHistory, aiCall,
                  userDoc, today, streakCalls, dawn >>

\* signIn: signInWithEmailAndPassword resolves
SignIn(u) ==
  /\ window_auth
  /\ currentUser = NoUser
  /\ currentUser' = u
  /\ calls' = Disturb(calls)
  /\ UNCHANGED << db, window_db, window_auth, messageHandler, isOnline, now,
                  rateLimitData, offlineQueue, storedQueue, chat, store,
                  allowedLog, lastCheck,
                  passes, nextId, drainLog,
                  conversationHistoryByLanguage, currentActiveLanguage,
                  historyLoad,
                  conversationHistory, aiCall,
                  userDoc, today, streakCalls, dawn >>

\* signOut: window.auth.signOut() resolves, the conversation history of every
\* language and the chat container are emptied
SignOut ==
  /\ window_auth
  /\ currentUser # NoUser
  /\ currentUser' = NoUser
  /\ chat' = <<>>
  /\ conversationHistoryByLanguage' = NoHistory
  /\ conversationHistory' = <<>>
  /\ calls' = Disturb(calls)
  /\ UNCHANGED << db, window_db, window_auth, messageHandler, isOnline, now,
                  rateLimitData, offlineQueue, storedQueue, store,
                  allowedLog, lastCheck,
                  passes, nextId, drainLog, currentActiveLanguage,
                  historyLoad, aiCall,
                  userDoc, today, streakCalls, dawn >>

\* the 'online' listener: isOnline = true; processOfflineQueue(), which
\* returns at once on an empty queue and otherwise starts a pass, whether or
\* not an earlier pass is still in progress
GoOnline ==
  /\ ~isOnline
  /\ isOnline' = TRUE
  /\ calls' = Disturb(calls)
  /\ IF messageHandler /\ offlineQueue # <<>>
     THEN /\ \E p \in PassIds : passes[p].pc = "idle"
          /\ LET p == CHOOSE r \in PassIds :
                        /\ passes[r].pc = "idle"
                        /\ \A r2 \in PassIds : passes[r2].pc = "idle" => r <= r2
             IN ContinuePass(p, [IdlePass EXCEPT !.startId = nextId], 1,
                             offlineQueue, passes)
     ELSE UNCHANGED << offlineQueue, storedQueue, passes >>
  /\ UNCHANGED << db, window_db, window_auth, currentUser, messageHandler,
                  now, rateLimitData, chat, store, allowedLog, lastCheck,
                  nextId, drainLog,
                  conversationHistoryByLanguage, currentActiveLanguage,
                  historyLoad,
                  conversationHistory, aiCall,
                  userDoc, today, streakCalls, dawn >>

\* the 'offline' listener
GoOffline ==
  /\ isOnline
  /\ isOnline' = FALSE
  /\ calls' = Disturb(calls)
  /\ UNCHANGED << db, window_db, window_auth, currentUser, messageHandler,
                  now, rateLimitData, offlineQueue, storedQueue, chat, store,
                  allowedLog, lastCheck,
                  passes, nextId, drainLog,
                  conversationHistoryByLanguage, currentActiveLanguage,
                  historyLoad,
                  conversationHistory, aiCall,
                  userDoc, today, streakCalls, dawn >>

\* a whole rate-limit window of time passes
Tick ==
  /\ now + windowMs <= MaxTicks * windowMs
  /\ now' = now + windowMs
  /\ UNCHANGED << db, window_db, window_auth, currentUser, messageHandler,
                  isOnline, rateLimitData, offlineQueue, storedQueue, chat,
                  store, calls, allowedLog, lastCheck,
                  passes, nextId, drainLog,
                  conversationHistoryByLanguage, currentActiveLanguage,
                  historyLoad,
                  conversationHistory, aiCall,
                  userDoc, today, streakCalls, dawn >>

\* the page is loaded again: script state and DOM start over, local storage
\* and the remote store stay
Reload ==
  /\ db' = FALSE
  /\ window_auth' = FALSE
  /\ currentUser' = NoUser
  /\ messageHandler' = FALSE
  /\ offlineQueue' = <<>>
  /\ chat' = <<>>
  /\ calls' = [c \in CallIds |-> IdleCall]
  /\ passes' = [p \in PassIds |-> IdlePass]
  /\ conversationHistoryByLanguage' = NoHistory
  /\ currentActiveLanguage' = "Spanish"
  /\ historyLoad' = NoLoad
  /\ conversationHistory' = <<>>
  /\ aiCall' = NoAICall
  /\ streakCalls' = [c \in StreakCallIds |-> IdleStreakCall]
  /\ UNCHANGED << window_db, isOnline, now, rateLimitData, storedQueue,
                  store, allowedLog, lastCheck, nextId, drainLog,
                  userDoc, today, dawn >>

\* --------------------------------------------------------------- pipeline
\* canSaveToDatabase: !!(window.db && window.auth && window.auth.currentUser)
canSaveToDatabase == window_db /\ window_auth /\ currentUser # NoUser

\* addMessage without the shouldAutoSpeak test around handlePersistence
PersistenceRequested_Always(shouldAutoSpeak) == TRUE

\* addMessage: if (shouldAutoSpeak !== false) handlePersistence(...)
PersistenceRequested(shouldAutoSpeak) == shouldAutoSpeak # FALSE

\* the slot a new invocation is recorded in
FreeSlot == CHOOSE c \in CallIds :
              /\ calls[c].pc \notin Running
              /\ \A d \in CallIds : calls[d].pc \notin Running => c <= d

\* an invocation that ended: addMessage resolved to ok, after handleError
\* reported err when ok is FALSE
Finished(call, ok, err) ==
  [call EXCEPT !.pc = "done",
               !.result = IF ok THEN "true" ELSE "false",
               !.error = err]

\* addMessage up to its first await: app.js addMessage constructs the
\* handler on first use, then validateMessageInputs, checkRateLimit,
\* sanitizeMessage and displayMessage up to container.appendChild
AddMessage(message, sender, shouldAutoSpeak) ==
  /\ \E c \in CallIds : calls[c].pc \notin Running
  /\ LET c == FreeSlot
         verdict == validateMessageInputs(message, sender)
         limit == checkRateLimit(rateLimitData, now)
         text == sanitizeMessage(message.chars)
         call == [IdleCall EXCEPT
                    !.message = message, !.sender = sender,
                    !.shouldAutoSpeak = shouldAutoSpeak,
                    !.online0 = isOnline,
                    !.windowFull =
                       (Len(FilterWindow(rateLimitData, now)) >= maxMessages),
                    !.auth0 = (db /\ window_auth /\ currentUser # NoUser)]
     IN /\ messageHandler' = TRUE
        /\ offlineQueue' = IF messageHandler THEN offlineQueue ELSE storedQueue
        /\ IF verdict # "ok"
           THEN /\ calls' = [calls EXCEPT ![c] = Finished(call, FALSE, verdict)]
                /\ UNCHANGED << rateLimitData, chat >>
           ELSE IF ~limit.allowed
           THEN /\ calls' = [calls EXCEPT ![c] =
                               Finished(call, FALSE, "Rate limit exceeded")]
                /\ UNCHANGED << rateLimitData, chat >>
           ELSE /\ Len(chat) < MaxChat
                /\ rateLimitData' = limit.timestamps
                /\ chat' = Append(chat, [message |-> text, sender |-> sender])
                /\ calls' = [calls EXCEPT ![c] =
                               [call EXCEPT !.pc = "animating",
                                            !.text = text,
                                            !.stamped = TRUE,
                                            !.displayed = TRUE]]
  /\ UNCHANGED << db, window_db, window_auth, currentUser, isOnline, now,
                  storedQueue, store, allowedLog, lastCheck,
                  passes, nextId, drainLog,
                  conversationHistoryByLanguage, currentActiveLanguage,
                  historyLoad,
                  conversationHistory, aiCall,
                  userDoc, today, streakCalls, dawn >>

\* what `await window.saveMessageToFirestore(...)` yields to saveWithRetry
\* when the store gave answer ("accepted" or "rejected") to the write:
\* saveMessageToFirestore wraps its writes in try/catch, and the catch only
\* logs, so the promise resolves either way
SaveSettles(answer) ==
  IF answer = "rejected" THEN "resolved" ELSE "resolved"

\* one pass of saveWithRetry's loop body up to the await inside
\* saveMessageToFirestore: `if (!db || !window.auth.currentUser) return;`
\* resolves at once, otherwise the conversation document is sent
StartAttempt(call) ==
  IF ~db \/ currentUser = NoUser
  THEN Finished([call EXCEPT !.attempts = @ + 1, !.saveIndicator = "saved"],
                TRUE, "none")
  ELSE [call EXCEPT !.pc = "adding", !.attempts = @ + 1,
                    !.saveIndicator = "saving", !.uid = currentUser]

\* addMessage after animateMessageEntry: handlePersistence and the first
\* attempt of saveWithRetry
AnimationDone(c) ==
  /\ calls[c].pc = "animating"
  /\ IF ~PersistenceRequested(calls[c].shouldAutoSpeak)
     THEN calls' = [calls EXCEPT ![c] = Finished(@, TRUE, "none")]
     ELSE IF ~canSaveToDatabase
     THEN calls' = [calls EXCEPT ![c] = Finished(@, TRUE, "none")]
     ELSE calls' = [calls EXCEPT ![c] = StartAttempt(@)]
  /\ UNCHANGED << db, window_db, window_auth, currentUser, messageHandler,
                  isOnline, now, rateLimitData, offlineQueue, storedQueue,
                  chat, store, allowedLog, lastCheck,
                  passes, nextId, drainLog,
                  conversationHistoryByLanguage, currentActiveLanguage,
                  historyLoad,
                  conversationHistory, aiCall,
                  userDoc, today, streakCalls, dawn >>

\* the store accepts the conversation document; saveMessageToFirestore goes
\* on to the stats update for a user message (a TypeError on a missing
\* currentUser lands in its catch), otherwise it returns and saveWithRetry,
\* handlePersistence and addMessage return in turn
AddAccepted(c) ==
  /\ calls[c].pc = "adding"
  /\ isOnline
  /\ Len(store) < MaxStore
  /\ store' = Append(store, [message |-> calls[c].text,
                             sender |-> calls[c].sender,
                             uid |-> calls[c].uid])
  /\ IF calls[c].sender = "user" /\ currentUser # NoUser
     THEN calls' = [calls EXCEPT ![c] =
                      [@ EXCEPT !.pc = "updating", !.writes = @ + 1]]
     ELSE calls' = [calls EXCEPT ![c] =
                      Finished([@ EXCEPT !.writes = @ + 1,
                                         !.saveIndicator = "saved"],
                               TRUE, "none")]
  /\ UNCHANGED << db, window_db, window_auth, currentUser, messageHandler,
                  isOnline, now, rateLimitData, offlineQueue, storedQueue,
                  chat, allowedLog, lastCheck,
                  passes, nextId, drainLog,
                  conversationHistoryByLanguage, currentActiveLanguage,
                  historyLoad,
                  conversationHistory, aiCall,
                  userDoc, today, streakCalls, dawn >>

\* queueForOfflineSync: the entry pushed on offlineQueue
\* by: history, not a field of the entry: the user signed in at that time
QueuedMessage(call) ==
  [id |-> nextId, message |-> call.text, sender |-> call.sender,
   targetLanguage |-> getTargetLanguage, timestamp |-> now,
   retryCount |-> 0, by |-> currentUser]

\* the store rejects the conversation document.  When the promise of
\* saveMessageToFirestore resolves, saveWithRetry logs message_saved and
\* returns, handlePersistence shows the saved indicator and addMessage
\* resolves to true.  When it rejects, saveWithRetry's catch waits
\* baseDelay * backoffMultiplier^attempt and loops while attempt < maxRetries,
\* and throws after the last attempt; handlePersistence then queues the
\* message when offline and rethrows when online, and addMessage's catch
\* reports the error and resolves to false
AddRejected(c) ==
  /\ calls[c].pc = "adding"
  /\ LET call == [calls[c] EXCEPT !.rejected = @ + 1]
         attempt == calls[c].attempts - 1
     IN IF SaveSettles("rejected") = "resolved"
        THEN /\ calls' = [calls EXCEPT ![c] =
                            Finished([call EXCEPT !.saveIndicator = "saved"],
                                     TRUE, "none")]
             /\ UNCHANGED << offlineQueue, storedQueue, nextId >>
        ELSE IF attempt < maxRetries
        THEN /\ calls' = [calls EXCEPT ![c] =
                            [call EXCEPT !.pc = "delaying",
                                         !.waited = Append(@, RetryDelay(attempt))]]
             /\ UNCHANGED << offlineQueue, storedQueue, nextId >>
        ELSE IF ~isOnline
        THEN /\ offlineQueue' = Append(offlineQueue, QueuedMessage(call))
             /\ storedQueue' = offlineQueue'
             /\ nextId' = nextId + 1
             /\ calls' = [calls EXCEPT ![c] =
                            Finished([call EXCEPT !.saveIndicator = "failed",
                                                  !.queued = @ + 1],
                                     TRUE, "none")]
        ELSE /\ calls' = [calls EXCEPT ![c] =
                            Finished([call EXCEPT !.saveIndicator = "failed"],
                                     FALSE, "Failed to save message")]
             /\ UNCHANGED << offlineQueue, storedQueue, nextId >>
  /\ UNCHANGED << db, window_db, window_auth, currentUser, messageHandler,
                  isOnline, now, rateLimitData, chat, store, allowedLog,
                  lastCheck, passes, drainLog,
                  conversationHistoryByLanguage, currentActiveLanguage,
                  historyLoad,
                  conversationHistory, aiCall,
                  userDoc, today, streakCalls, dawn >>

\* saveWithRetry after `await this.delay(delay)`: the next attempt.  No
\* specification takes this step: no invocation ever waits for a retry,
\* because SaveSettles never yields a rejection
RetryDelayElapsed(c) ==
  /\ calls[c].pc = "delaying"
  /\ calls' = [calls EXCEPT ![c] = StartAttempt(@)]
  /\ UNCHANGED << db, window_db, window_auth, currentUser, messageHandler,
                  isOnline, now, rateLimitData, offlineQueue, storedQueue,
                  chat, store, allowedLog, lastCheck,
                  passes, nextId, drainLog,
                  conversationHistoryByLanguage, currentActiveLanguage,
                  historyLoad,
                  conversationHistory, aiCall,
                  userDoc, today, streakCalls, dawn >>

\* the stats.totalMessages update settles, accepted or rejected (the
\* rejection is caught and logged inside saveMessageToFirestore)
UpdateSettled(c) ==
  /\ calls[c].pc = "updating"
  /\ calls' = [calls EXCEPT ![c] =
                 Finished([@ EXCEPT !.saveIndicator = "saved"], TRUE, "none")]
  /\ UNCHANGED << db, window_db, window_auth, currentUser, messageHandler,
                  isOnline, now, rateLimitData, offlineQueue, storedQueue,
                  chat, store, allowedLog, lastCheck,
                  passes, nextId, drainLog,
                  conversationHistoryByLanguage, currentActiveLanguage,
                  historyLoad,
                  conversationHistory, aiCall,
                  userDoc, today, streakCalls, dawn >>

\* ---------------------------------------------------------- specifications
NextPage ==
  \/ InitializeApp
  \/ \E u \in Users : SignIn(u)
  \/ SignOut
  \/ GoOnline
  \/ GoOffline
  \/ Tick
  \/ Reload
  \/ \E m \in InputMessages, s \in InputSenders, a \in BOOLEAN :
       AddMessage(m, s, a)
  \/ \E c \in CallIds : AnimationDone(c)

NextWrites ==
  \/ \E c \in CallIds : AddAccepted(c)
  \/ \E c \in CallIds : AddRejected(c)
  \/ \E c \in CallIds : UpdateSettled(c)

Next == NextPage

Spec == Init /\ [][Next]_vars

NextBound == NextPage \/ NextWrites

SpecBound == InitBound /\ [][NextBound]_vars

\* ------------------------------------------------- rate limiter on its own
\* the handler has been constructed and only checkRateLimit is called
InitRate ==
  /\ db = FALSE
  /\ window_db = FALSE
  /\ window_auth = FALSE
  /\ currentUser = NoUser
  /\ messageHandler = TRUE
  /\ isOnline = TRUE
  /\ now = 0
  /\ rateLimitData = <<>>
  /\ offlineQueue = <<>>
  /\ storedQueue = <<>>
  /\ chat = <<>>
  /\ store = <<>>
  /\ calls = [c \in CallIds |-> IdleCall]
  /\ allowedLog = <<>>
  /\ lastCheck = NoCheck
  /\ passes = [p \in PassIds |-> IdlePass]
  /\ nextId = 1
  /\ drainLog = <<>>
  /\ conversationHistoryByLanguage = NoHistory
  /\ currentActiveLanguage = "Spanish"
  /\ historyLoad = NoLoad
  /\ conversationHistory = <<>>
  /\ aiCall = NoAICall
  /\ userDoc = NewProfile
  /\ today = 1
  /\ streakCalls = [c \in StreakCallIds |-> IdleStreakCall]
  /\ dawn = [doc |-> userDoc, changes |-> 0]

RateStep == windowMs \div TicksPerWindow

\* history: the allowed calls made less than windowMs before time t
RecentAllowed(t) ==
  Cardinality({i \in DOMAIN allowedLog : t - allowedLog[i] < windowMs})

\* messageHandler.checkRateLimit()
CallCheckRateLimit ==
  /\ messageHandler
  /\ LET r == checkRateLimit(rateLimitData, now)
     IN /\ rateLimitData' = r.timestamps
        /\ allowedLog' = IF r.allowed THEN Append(allowedLog, now)
                         ELSE allowedLog
        /\ lastCheck' = [made |-> TRUE, allowed |-> r.allowed,
                         recent |-> RecentAllowed(now)]
  /\ UNCHANGED << db, window_db, window_auth, currentUser, messageHandler,
                  isOnline, now, offlineQueue, storedQueue, chat, store,
                  calls,
                  passes, nextId, drainLog,
                  conversationHistoryByLanguage, currentActiveLanguage,
                  historyLoad,
                  conversationHistory, aiCall,
                  userDoc, today, streakCalls, dawn >>

\* part of a rate-limit window of time passes
TickRate ==
  /\ now + RateStep <= MaxRateTicks * RateStep
  /\ now' = now + RateStep
  /\ UNCHANGED << db, window_db, window_auth, currentUser, messageHandler,
                  isOnline, rateLimitData, offlineQueue, storedQueue, chat,
                  store, calls, allowedLog, lastCheck,
                  passes, nextId, drainLog,
                  conversationHistoryByLanguage, currentActiveLanguage,
                  historyLoad,
                  conversationHistory, aiCall,
                  userDoc, today, streakCalls, dawn >>

NextRate == CallCheckRateLimit \/ TickRate

SpecRate == InitRate /\ [][NextRate]_vars

\* ------------------------------------- validator and sanitizer on their own
\* a string of n characters c
Repeat(c, n) == [i \in 1..n |-> c]

\* arguments handed to validateMessageInputs: values that are not strings,
\* empty and whitespace-only strings, and strings around the length limit
ValidatorMessages ==
  { NotAString,
    [type |-> "number", chars |-> <<>>],
    [type |-> "object", chars |-> <<>>],
    Str(<<>>), Str(Blank), Str(<<" ", "\t", "\n", "\r">>),
    Str(Hola), Str(Markup), Str(<<" ", "a", " ">>),
    Str(Repeat("a", MaxMessageLength - 1)),
    Str(Repeat("a", MaxMessageLength)),
    Str(Repeat("a", MaxMessageLength + 1)),
    Str(Repeat("a", 2 * MaxMessageLength)),
    Str(Repeat(" ", MaxMessageLength)),
    Str(Repeat(" ", MaxMessageLength + 1)),
    Str(<<"a">> \o Repeat(" ", MaxMessageLength - 1)),
    Str(<<"a">> \o Repeat(" ", MaxMessageLength)) }

ValidatorSenders == {"user", "ai", "system", "", "User", "AI", "bot"}

\* fragments of markup, schemes and event handlers
Tokens ==
  { <<"f", "t">>, <<"p", ":">>, <<"F", "T">>, <<"&">>, <<"<">>,
    <<"o", "n">>, <<"x">>, <<"=">>, <<" ">> }

\* the concatenations of at most n fragments
RECURSIVE Concats(_)
Concats(n) ==
  IF n = 0 THEN {<<>>}
  ELSE Concats(n - 1) \cup {x \o t : x \in Concats(n - 1), t \in Tokens}

SanitizerInputs == Concats(MaxTokens)

\* messageHandler.validateMessageInputs(message, sender), the one call of a
\* behaviour of SpecText
CallValidate(message, sender) ==
  /\ messageHandler
  /\ calls[1].pc = "idle"
  /\ LET verdict == validateMessageInputs(message, sender)
     IN calls' = [calls EXCEPT ![1] =
                    [IdleCall EXCEPT !.pc = "validated",
                                     !.message = message,
                                     !.sender = sender,
                                     !.result = IF verdict = "ok" THEN "returned"
                                                ELSE "thrown",
                                     !.error = IF verdict = "ok" THEN "none"
                                               ELSE verdict]]
  /\ UNCHANGED << db, window_db, window_auth, currentUser, messageHandler,
                  isOnline, now, rateLimitData, offlineQueue, storedQueue,
                  chat, store, allowedLog, lastCheck,
                  passes, nextId, drainLog,
                  conversationHistoryByLanguage, currentActiveLanguage,
                  historyLoad,
                  conversationHistory, aiCall,
                  userDoc, today, streakCalls, dawn >>

\* messageHandler.sanitizeMessage(x), the one call of a behaviour of SpecText
CallSanitize(x) ==
  /\ messageHandler
  /\ calls[1].pc = "idle"
  /\ calls' = [calls EXCEPT ![1] =
                 [IdleCall EXCEPT !.pc = "sanitized",
                                  !.message = Str(x),
                                  !.text = sanitizeMessage(x),
                                  !.result = "returned"]]
  /\ UNCHANGED << db, window_db, window_auth, currentUser, messageHandler,
                  isOnline, now, rateLimitData, offlineQueue, storedQueue,
                  chat, store, allowedLog, lastCheck,
                  passes, nextId, drainLog,
                  conversationHistoryByLanguage, currentActiveLanguage,
                  historyLoad,
                  conversationHistory, aiCall,
                  userDoc, today, streakCalls, dawn >>

NextText ==
  \/ \E m \in ValidatorMessages, s \in ValidatorSenders : CallValidate(m, s)
  \/ \E x \in SanitizerInputs : CallSanitize(x)

SpecText == InitRate /\ [][NextText]_vars

\* --------------------------------------------------- offline queue on its own
QueueMessages == {Hola}
QueueSenders == {"user", "ai"}

\* window.messageHandler = new MessageHandler(): the constructor registers
\* the listeners and loads the queue from local storage
NewMessageHandler ==
  /\ ~messageHandler
  /\ messageHandler' = TRUE
  /\ offlineQueue' = storedQueue
  /\ UNCHANGED << db, window_db, window_auth, currentUser, isOnline, now,
                  rateLimitData, storedQueue, chat, store, calls, allowedLog,
                  lastCheck, passes, nextId, drainLog,
                  conversationHistoryByLanguage, currentActiveLanguage,
                  historyLoad,
                  conversationHistory, aiCall,
                  userDoc, today, streakCalls, dawn >>

\* queueForOfflineSync without its saveOfflineQueue call
CallQueueForOfflineSync_NoSave(message, sender) ==
  /\ messageHandler
  /\ nextId <= MaxQueued
  /\ offlineQueue' =
       Append(offlineQueue,
              QueuedMessage([IdleCall EXCEPT !.text = message,
                                             !.sender = sender]))
  /\ nextId' = nextId + 1
  /\ UNCHANGED << db, window_db, window_auth, currentUser, messageHandler,
                  isOnline, now, rateLimitData, storedQueue, chat, store,
                  calls, allowedLog, lastCheck, passes, drainLog,
                  conversationHistoryByLanguage, currentActiveLanguage,
                  historyLoad,
                  conversationHistory, aiCall,
                  userDoc, today, streakCalls, dawn >>

\* messageHandler.queueForOfflineSync(message, sender)
CallQueueForOfflineSync(message, sender) ==
  /\ messageHandler
  /\ nextId <= MaxQueued
  /\ offlineQueue' =
       Append(offlineQueue,
              QueuedMessage([IdleCall EXCEPT !.text = message,
                                             !.sender = sender]))
  /\ storedQueue' = offlineQueue'
  /\ nextId' = nextId + 1
  /\ UNCHANGED << db, window_db, window_auth, currentUser, messageHandler,
                  isOnline, now, rateLimitData, chat, store, calls,
                  allowedLog, lastCheck, passes, drainLog,
                  conversationHistoryByLanguage, currentActiveLanguage,
                  historyLoad,
                  conversationHistory, aiCall,
                  userDoc, today, streakCalls, dawn >>

\* the entry whose write pass p is waiting for
CurrentEntry(p) == PassArray(passes[p], offlineQueue)[passes[p].idx]

\* the store accepts the conversation document of the entry pass p is at;
\* saveMessageToFirestore goes on to the stats update for a user message,
\* otherwise saveWithRetry returns and the loop goes on
DrainAddAccepted(p) ==
  /\ passes[p].pc = "adding"
  /\ isOnline
  /\ Len(drainLog) < MaxDrainWrites
  /\ drainLog' = Append(drainLog, [id |-> CurrentEntry(p).id,
                                   message |-> CurrentEntry(p).message,
                                   sender |-> CurrentEntry(p).sender,
                                   uid |-> passes[p].uid,
                                   language |-> passes[p].language,
                                   pass |-> p,
                                   queuedBy |-> CurrentEntry(p).by,
                                   queuedLanguage |->
                                     CurrentEntry(p).targetLanguage])
  /\ IF CurrentEntry(p).sender = "user" /\ currentUser # NoUser
     THEN /\ passes' = [passes EXCEPT ![p] = [@ EXCEPT !.pc = "updating"]]
          /\ UNCHANGED << offlineQueue, storedQueue >>
     ELSE ContinuePass(p, [passes[p] EXCEPT !.processed =
                                              @ \cup {CurrentEntry(p).id}],
                       passes[p].idx + 1, offlineQueue, passes)
  /\ UNCHANGED << db, window_db, window_auth, currentUser, messageHandler,
                  isOnline, now, rateLimitData, chat, store, calls,
                  allowedLog, lastCheck, nextId,
                  conversationHistoryByLanguage, currentActiveLanguage,
                  historyLoad,
                  conversationHistory, aiCall,
                  userDoc, today, streakCalls, dawn >>

\* the store rejects the conversation document of the entry pass p is at.
\* When the promise of saveMessageToFirestore resolves, saveWithRetry
\* returns and the id is pushed on processed.  When it rejects,
\* saveWithRetry retries after its delay while attempt < maxRetries and then
\* throws, and the catch of processOfflineQueue increments retryCount and
\* pushes the id once retryCount >= 5
DrainAddRejected(p) ==
  /\ passes[p].pc = "adding"
  /\ LET id == CurrentEntry(p).id
         bumped == [r \in PassIds |->
                      [passes[r] EXCEPT !.arr = BumpRetry(@, id)]]
     IN IF SaveSettles("rejected") = "resolved"
        THEN ContinuePass(p, [passes[p] EXCEPT !.processed = @ \cup {id}],
                          passes[p].idx + 1, offlineQueue, passes)
        ELSE IF passes[p].attempt < maxRetries
        THEN /\ passes' = [passes EXCEPT ![p] = [@ EXCEPT !.pc = "delaying"]]
             /\ UNCHANGED << offlineQueue, storedQueue >>
        ELSE ContinuePass(p,
                          [bumped[p] EXCEPT !.processed =
                             IF CurrentEntry(p).retryCount + 1 >= maxRetryCount
                             THEN @ \cup {id} ELSE @],
                          passes[p].idx + 1,
                          BumpRetry(offlineQueue, id), bumped)
  /\ UNCHANGED << db, window_db, window_auth, currentUser, messageHandler,
                  isOnline, now, rateLimitData, chat, store, calls,
                  allowedLog, lastCheck, nextId, drainLog,
                  conversationHistoryByLanguage, currentActiveLanguage,
                  historyLoad,
                  conversationHistory, aiCall,
                  userDoc, today, streakCalls, dawn >>

\* saveWithRetry inside a pass after `await this.delay(delay)`: the next
\* attempt.  No specification takes this step, because SaveSettles never
\* yields a rejection
DrainRetryDelayElapsed(p) ==
  /\ passes[p].pc = "delaying"
  /\ IF db /\ currentUser # NoUser
     THEN /\ passes' = [passes EXCEPT ![p] =
                          [@ EXCEPT !.pc = "adding", !.attempt = @ + 1,
                                    !.uid = currentUser,
                                    !.language = getTargetLanguage]]
          /\ UNCHANGED << offlineQueue, storedQueue >>
     ELSE ContinuePass(p, [passes[p] EXCEPT !.processed =
                                              @ \cup {CurrentEntry(p).id}],
                       passes[p].idx + 1, offlineQueue, passes)
  /\ UNCHANGED << db, window_db, window_auth, currentUser, messageHandler,
                  isOnline, now, rateLimitData, chat, store, calls,
                  allowedLog, lastCheck, nextId, drainLog,
                  conversationHistoryByLanguage, currentActiveLanguage,
                  historyLoad,
                  conversationHistory, aiCall,
                  userDoc, today, streakCalls, dawn >>

\* the stats.totalMessages update of pass p settles, accepted or rejected;
\* saveWithRetry returns and the loop goes on
DrainUpdateSettled(p) ==
  /\ passes[p].pc = "updating"
  /\ ContinuePass(p, [passes[p] EXCEPT !.processed =
                                         @ \cup {CurrentEntry(p).id}],
                  passes[p].idx + 1, offlineQueue, passes)
  /\ UNCHANGED << db, window_db, window_auth, currentUser, messageHandler,
                  isOnline, now, rateLimitData, chat, store, calls,
                  allowedLog, lastCheck, nextId, drainLog,
                  conversationHistoryByLanguage, currentActiveLanguage,
                  historyLoad,
                  conversationHistory, aiCall,
                  userDoc, today, streakCalls, dawn >>

NextQueue ==
  \/ InitializeApp
  \/ \E u \in Users : SignIn(u)
  \/ SignOut
  \/ GoOnline
  \/ GoOffline
  \/ Reload
  \/ NewMessageHandler
  \/ \E m \in QueueMessages, s \in QueueSenders : CallQueueForOfflineSync(m, s)
  \/ \E p \in PassIds : DrainAddAccepted(p)
  \/ \E p \in PassIds : DrainAddRejected(p)
  \/ \E p \in PassIds : DrainUpdateSettled(p)

SpecQueue == InitBound /\ [][NextQueue]_vars

\* ------------------------------------------------- sign-in and history load
\* data.language || 'Spanish'
DocLanguage(doc) ==
  IF "language" \in DOMAIN doc THEN doc.language ELSE "Spanish"

\* a conversations collection of n documents written by earlier sessions of
\* user u1, oldest first: user and ai messages in turn, mostly Spanish
StoredHistory(n) ==
  [k \in 1..n |->
     [message |-> Hola,
      sender |-> IF k % 2 = 1 THEN "user" ELSE "ai",
      uid |-> "u1",
      language |-> IF k % 12 = 0 THEN "French" ELSE "Spanish"]]

\* conversationHistoryByLanguage[language].forEach(displayMessage): each
\* message goes through addMessage(message, sender, false) up to the append
\* of its element: validateMessageInputs, checkRateLimit on the timestamps
\* ts at time t, sanitizeMessage, appendChild.  The chat container (shown)
\* and the timestamps when all have been handled
RECURSIVE DisplayAll(_, _, _, _)
DisplayAll(msgs, ts, t, shown) ==
  IF msgs = <<>> THEN [chat |-> shown, timestamps |-> ts]
  ELSE LET m == Head(msgs)
           limit == checkRateLimit(ts, t)
       IN IF validateMessageInputs(Str(m.message), m.sender) # "ok"
          THEN DisplayAll(Tail(msgs), ts, t, shown)
          ELSE IF ~limit.allowed
          THEN DisplayAll(Tail(msgs), ts, t, shown)
          ELSE DisplayAll(Tail(msgs), limit.timestamps, t,
                          Append(shown,
                                 [message |-> sanitizeMessage(m.message),
                                  sender |-> m.sender]))

\* the {message, sender} entries kept for the documents docs
HistoryEntries(docs) ==
  [k \in DOMAIN docs |-> [message |-> docs[k].message,
                          sender |-> docs[k].sender]]

\* the newest historyLimit documents of user uid, oldest first
UserDocs(uid) ==
  LET Mine(doc) == doc.uid = uid
      all == SelectSeq(store, Mine)
  IN IF Len(all) <= historyLimit THEN all
     ELSE SubSeq(all, Len(all) - historyLimit + 1, Len(all))

\* loadConversationForLanguage(language) on the history hist: the chat is
\* emptied and the messages kept for the language are displayed; app.js
\* addMessage constructs the handler on first use
LoadConversationForLanguage(hist, language) ==
  LET shown == DisplayAll(hist[language], rateLimitData, now, <<>>)
  IN /\ chat' = shown.chat
     /\ rateLimitData' = shown.timestamps
     /\ messageHandler' = (messageHandler \/ hist[language] # <<>>)
     /\ offlineQueue' = IF ~messageHandler /\ hist[language] # <<>>
                        THEN storedQueue ELSE offlineQueue

\* what selectLanguage reads and changes: the chat container, the histories,
\* the active language and the rate-limit timestamps in local storage
Page ==
  [ chat |-> chat, history |-> conversationHistoryByLanguage,
    active |-> currentActiveLanguage, timestamps |-> rateLimitData ]

\* saveCurrentConversationState: the messages of the chat container, read
\* back from the text of its elements, become the history of the active
\* language
saveCurrentConversationState(page) ==
  [page.history EXCEPT
     ![page.active] =
        [k \in DOMAIN page.chat |->
           [message |-> page.chat[k].message,
            sender |-> IF page.chat[k].sender = "user" THEN "user"
                       ELSE "ai"]]]

\* selectLanguage(language) at time t: the conversation shown is saved, the
\* active language and the #targetLanguage select change, the chat is
\* emptied and the conversation kept for the language is displayed through
\* addMessage(message, sender, false)
selectLanguage(page, language, t) ==
  LET saved == saveCurrentConversationState(page)
      shown == DisplayAll(saved[language], page.timestamps, t, <<>>)
  IN [ chat |-> shown.chat, history |-> saved, active |-> language,
       timestamps |-> shown.timestamps ]

\* a language item of the sidebar or the #targetLanguage select of the chat
\* interface is used; app.js addMessage constructs the handler on first use
SelectLanguage(language) ==
  /\ currentUser # NoUser
  /\ LET r == selectLanguage(Page, language, now)
     IN /\ chat' = r.chat
        /\ conversationHistoryByLanguage' = r.history
        /\ currentActiveLanguage' = r.active
        /\ rateLimitData' = r.timestamps
        /\ messageHandler' = (messageHandler \/ r.history[language] # <<>>)
        /\ offlineQueue' = IF ~messageHandler /\ r.history[language] # <<>>
                           THEN storedQueue ELSE offlineQueue
  /\ UNCHANGED << db, window_db, window_auth, currentUser, isOnline, now,
                  storedQueue, store, calls, allowedLog, lastCheck, passes,
                  nextId, drainLog, historyLoad, conversationHistory,
                  aiCall,
                  userDoc, today, streakCalls, dawn >>

\* the onAuthStateChanged listener.  For a user: initializeSidebar, that is
\* selectLanguage(currentActiveLanguage), which saves the messages of the
\* chat as the history of the language and displays them again, and
\* setTimeout(loadConversationHistory, 1000).  For no user: showAuthInterface
AuthStateChanged ==
  /\ window_auth
  /\ historyLoad.notified # currentUser
  /\ IF currentUser = NoUser
     THEN /\ historyLoad' = [historyLoad EXCEPT !.notified = NoUser]
          /\ UNCHANGED << conversationHistoryByLanguage, chat, rateLimitData,
                          messageHandler, offlineQueue >>
     ELSE /\ historyLoad.pc = "idle"
          /\ LET saved ==
                   [conversationHistoryByLanguage EXCEPT
                      ![currentActiveLanguage] =
                         [k \in DOMAIN chat |->
                            [message |-> chat[k].message,
                             sender |-> IF chat[k].sender = "user"
                                        THEN "user" ELSE "ai"]]]
             IN /\ conversationHistoryByLanguage' = saved
                /\ LoadConversationForLanguage(saved, currentActiveLanguage)
          /\ historyLoad' = [notified |-> currentUser, pc |-> "timer",
                             uid |-> NoUser, result |-> "none"]
  /\ UNCHANGED << db, window_db, window_auth, currentUser, isOnline, now,
                  storedQueue, store, calls, allowedLog, lastCheck, passes,
                  nextId, drainLog, currentActiveLanguage,
                  conversationHistory, aiCall,
                  userDoc, today, streakCalls, dawn >>

\* loadConversationHistory up to its await: it returns at once without a
\* database or a user, otherwise it queries the user's conversations
LoadTimerFires ==
  /\ historyLoad.pc = "timer"
  /\ IF ~db \/ currentUser = NoUser
     THEN historyLoad' = [historyLoad EXCEPT !.pc = "idle"]
     ELSE historyLoad' = [historyLoad EXCEPT !.pc = "reading",
                                             !.uid = currentUser]
  /\ UNCHANGED << db, window_db, window_auth, currentUser, messageHandler,
                  isOnline, now, rateLimitData, offlineQueue, storedQueue,
                  chat, store, calls, allowedLog, lastCheck, passes, nextId,
                  drainLog, conversationHistoryByLanguage,
                  currentActiveLanguage,
                  conversationHistory, aiCall,
                  userDoc, today, streakCalls, dawn >>

\* the query resolves: the documents are grouped by language, the history
\* of every language that has documents is replaced, and the conversation
\* of the active language is displayed
HistoryQueryResolves ==
  /\ historyLoad.pc = "reading"
  /\ LET docs == UserDocs(historyLoad.uid)
         ByLanguage(l) ==
           LET InL(doc) == DocLanguage(doc) = l
           IN HistoryEntries(SelectSeq(docs, InL))
         hist == [l \in Languages |->
                    IF ByLanguage(l) # <<>> THEN ByLanguage(l)
                    ELSE conversationHistoryByLanguage[l]]
     IN /\ conversationHistoryByLanguage' = hist
        /\ LoadConversationForLanguage(hist, currentActiveLanguage)
  /\ historyLoad' = [historyLoad EXCEPT !.pc = "idle", !.result = "loaded"]
  /\ UNCHANGED << db, window_db, window_auth, currentUser, isOnline, now,
                  storedQueue, store, calls, allowedLog, lastCheck, passes,
                  nextId, drainLog, currentActiveLanguage,
                  conversationHistory, aiCall,
                  userDoc, today, streakCalls, dawn >>

\* the query rejects: the catch of loadConversationHistory logs the error
HistoryQueryRejected ==
  /\ historyLoad.pc = "reading"
  /\ historyLoad' = [historyLoad EXCEPT !.pc = "idle", !.result = "failed"]
  /\ UNCHANGED << db, window_db, window_auth, currentUser, messageHandler,
                  isOnline, now, rateLimitData, offlineQueue, storedQueue,
                  chat, store, calls, allowedLog, lastCheck, passes, nextId,
                  drainLog, conversationHistoryByLanguage,
                  currentActiveLanguage,
                  conversationHistory, aiCall,
                  userDoc, today, streakCalls, dawn >>

\* a page whose user has conversations stored from earlier sessions
InitSession ==
  /\ db = FALSE
  /\ window_db = TRUE
  /\ window_auth = FALSE
  /\ currentUser = NoUser
  /\ messageHandler = FALSE
  /\ isOnline = TRUE
  /\ now = 0
  /\ rateLimitData = <<>>
  /\ offlineQueue = <<>>
  /\ storedQueue = <<>>
  /\ chat = <<>>
  /\ store \in {StoredHistory(n) : n \in 0..MaxHistory}
  /\ calls = [c \in CallIds |-> IdleCall]
  /\ allowedLog = <<>>
  /\ lastCheck = NoCheck
  /\ passes = [p \in PassIds |-> IdlePass]
  /\ nextId = 1
  /\ drainLog = <<>>
  /\ conversationHistoryByLanguage = NoHistory
  /\ currentActiveLanguage = "Spanish"
  /\ historyLoad = NoLoad
  /\ conversationHistory = <<>>
  /\ aiCall = NoAICall
  /\ userDoc = NewProfile
  /\ today = 1
  /\ streakCalls = [c \in StreakCallIds |-> IdleStreakCall]
  /\ dawn = [doc |-> userDoc, changes |-> 0]

NextSession ==
  \/ InitializeApp
  \/ \E u \in Users : SignIn(u)
  \/ SignOut
  \/ Reload
  \/ AuthStateChanged
  \/ LoadTimerFires
  \/ HistoryQueryResolves
  \/ HistoryQueryRejected

SpecSession == InitSession /\ [][NextSession]_vars

\* ------------------------------------- the queue across users and languages
\* the accounts that sign in on this browser
QueueUsers == {"u1", "u2"}

\* the queue is filled while offline by whoever is signed in, in whichever
\* language is selected, and drained when the browser comes online
NextHandover ==
  \/ InitializeApp
  \/ \E u \in QueueUsers : SignIn(u)
  \/ SignOut
  \/ NewMessageHandler
  \/ \E l \in Languages : SelectLanguage(l)
  \/ \E m \in QueueMessages, s \in QueueSenders : CallQueueForOfflineSync(m, s)
  \/ GoOnline
  \/ \E p \in PassIds : DrainAddAccepted(p)
  \/ \E p \in PassIds : DrainAddRejected(p)
  \/ \E p \in PassIds : DrainUpdateSettled(p)

\* the page is opened without a connection
InitHandover == InitBound /\ ~isOnline

SpecHandover == InitHandover /\ [][NextHandover]_vars

\* ------------------------------------------ submissions of assorted messages
\* arguments of addMessage: plain text, markup, text that consists of a
\* scheme or of an event handler only, blank text and a value that is no
\* string
SubmitMessages ==
  { Str(Hola), Str(Markup), Str(Blank), NotAString,
    Str(<<"f", "t", "p", ":">>),
    Str(<<"o", "n", "x", "=">>) }

NextSubmit ==
  \/ InitializeApp
  \/ \E u \in Users : SignIn(u)
  \/ \E m \in SubmitMessages, s \in InputSenders, a \in BOOLEAN :
       AddMessage(m, s, a)
  \/ \E c \in CallIds : AnimationDone(c)
  \/ NextWrites

SpecSubmit == InitBound /\ [][NextSubmit]_vars

\* ------------------------------------------------- switching the language
\* what the user and the tutor say: plain text and text with markup
SwitchMessages == {Str(Hola), Str(Markup)}

\* selectLanguage while few rate-limit timestamps are stored
SwitchLanguage(l) ==
  /\ Len(rateLimitData) < MaxSwitchChecks
  /\ SelectLanguage(l)

NextSwitch ==
  \/ InitializeApp
  \/ \E u \in Users : SignIn(u)
  \/ \E m \in SwitchMessages, s \in {"user", "ai"} : AddMessage(m, s, TRUE)
  \/ \E c \in CallIds : AnimationDone(c)
  \/ \E l \in Languages : SwitchLanguage(l)

\* the page as shipped, with the sidebar in use
SpecSwitch == Init /\ [][NextSwitch]_vars

\* ------------------------------------------------------------ getAIResponse

\* Math.random() is drawn from k / RandomSteps, k in 0..RandomSteps-1
RandomSteps == 10

\* the target languages offered to getAIResponse; English has no entry in
\* fallbackResponses
AILanguages == {"Spanish", "French", "English"}

\* the keys of fallbackResponses other than 'default'
FallbackLanguages ==
  {"Spanish", "French", "German", "Italian", "Portuguese", "Japanese",
   "Korean", "Chinese"}

\* the i-th text of the list under key; the texts of 'default' interpolate
\* targetLanguage
CannedResponse(key, i, targetLanguage) ==
  [ kind |-> "canned", list |-> key, index |-> i,
    about |-> IF key = "default" THEN targetLanguage ELSE key ]

\* fallbackResponses[key]: three texts per key
fallbackResponses(key, targetLanguage) ==
  [ i \in 1..3 |-> CannedResponse(key, i, targetLanguage) ]

\* Math.round in place of Math.floor
FallbackIndex_Round(k, len) ==
  (2 * k * len + RandomSteps) \div (2 * RandomSteps)

\* Math.floor(Math.random() * responses.length), zero-based
FallbackIndex(k, len) ==
  (k * len) \div RandomSteps

\* the catch block: fallbackResponses[targetLanguage] ||
\* fallbackResponses['default'], then a random element of it
Fallback(targetLanguage, k) ==
  LET responses ==
        IF targetLanguage \in FallbackLanguages
        THEN fallbackResponses(targetLanguage, targetLanguage)
        ELSE fallbackResponses("default", targetLanguage)
      i == FallbackIndex(k, Len(responses)) + 1
  IN  IF i \in DOMAIN responses THEN responses[i] ELSE [kind |-> "undefined"]

\* an exception reaches the catch block, which logs it and returns a
\* canned response
Caught(call, failed, error, k) ==
  [ call EXCEPT !.pc = "done", !.failed = failed, !.error = error,
                !.settled = "resolved",
                !.value = Fallback(call.targetLanguage, k) ]

\* conversationHistory.push(entry) followed by the cut to the last six
PushUser(history, message) ==
  LET h == Append(history, [role |-> "user", message |-> message])
  IN  IF Len(h) > 6 THEN SubSeq(h, Len(h) - 5, Len(h)) ELSE h

\* how GEMINI_API_KEY is set in config.js
ApiKeys == {"configured", "placeholder", "undeclared"}

\* getAIResponse up to its fetch
GetAIResponse(message, targetLanguage, key) ==
  /\ aiCall.pc \in {"idle", "done"}
  /\ LET call == [NoAICall EXCEPT !.targetLanguage = targetLanguage]
     IN  CASE key = "undeclared" ->
                /\ \E k \in 0..(RandomSteps - 1) :
                     aiCall' = Caught(call, FALSE, "ReferenceError", k)
                /\ UNCHANGED conversationHistory
           [] key = "placeholder" ->
                /\ aiCall' = [call EXCEPT !.pc = "done",
                                          !.settled = "resolved",
                                          !.value = [kind |-> "configure"]]
                /\ UNCHANGED conversationHistory
           [] OTHER ->
                /\ aiCall' = [call EXCEPT !.pc = "fetch"]
                /\ conversationHistory' =
                     PushUser(conversationHistory, message)
  /\ UNCHANGED << db, window_db, window_auth, currentUser, messageHandler,
                  isOnline, now, rateLimitData, offlineQueue, storedQueue,
                  chat, store, calls, allowedLog, lastCheck, passes, nextId,
                  drainLog, conversationHistoryByLanguage,
                  currentActiveLanguage, historyLoad,
                  userDoc, today, streakCalls, dawn >>

\* what the fetch promise does
FetchAnswers == {"network error", "ok", "not ok"}

\* await fetch(...) settles
FetchSettles(answer) ==
  /\ aiCall.pc = "fetch"
  /\ CASE answer = "network error" ->
            \E k \in 0..(RandomSteps - 1) :
              aiCall' = Caught(aiCall, TRUE, "fetch rejected", k)
       [] answer = "not ok" -> aiCall' = [aiCall EXCEPT !.pc = "error text"]
       [] OTHER -> aiCall' = [aiCall EXCEPT !.pc = "json"]
  /\ UNCHANGED << db, window_db, window_auth, currentUser, messageHandler,
                  isOnline, now, rateLimitData, offlineQueue, storedQueue,
                  chat, store, calls, allowedLog, lastCheck, passes, nextId,
                  drainLog, conversationHistoryByLanguage,
                  currentActiveLanguage, historyLoad, conversationHistory,
                  userDoc, today, streakCalls, dawn >>

\* await response.text() of a non-OK response settles; whether it resolves
\* or rejects, an exception is thrown inside the try block
ErrorTextSettles(readable) ==
  /\ aiCall.pc = "error text"
  /\ \E k \in 0..(RandomSteps - 1) :
       aiCall' = Caught(aiCall, TRUE,
                        IF readable THEN "Gemini API error"
                                    ELSE "text rejected", k)
  /\ UNCHANGED << db, window_db, window_auth, currentUser, messageHandler,
                  isOnline, now, rateLimitData, offlineQueue, storedQueue,
                  chat, store, calls, allowedLog, lastCheck, passes, nextId,
                  drainLog, conversationHistoryByLanguage,
                  currentActiveLanguage, historyLoad, conversationHistory,
                  userDoc, today, streakCalls, dawn >>

\* what response.json() yields: a rejection, or a body of some shape
JsonBodies ==
  {"not json", "null", "no candidates", "no content", "no parts",
   "no text", "text"}

\* the exception a body other than "text" ends in: json() rejects, the
\* shape test fails, or a property of null or undefined is read
JsonError(body) ==
  CASE body = "not json" -> "json rejected"
    [] body \in {"no candidates", "no content"} -> "Invalid response format"
    [] OTHER -> "TypeError"

\* await response.json() settles and the body is read
JsonSettles(body) ==
  /\ aiCall.pc = "json"
  /\ IF body = "text"
     THEN /\ aiCall' = [aiCall EXCEPT !.pc = "done", !.settled = "resolved",
                                      !.value = [kind |-> "text"]]
          /\ conversationHistory' =
               Append(conversationHistory,
                      [role |-> "assistant", message |-> "text"])
     ELSE /\ \E k \in 0..(RandomSteps - 1) :
               aiCall' = Caught(aiCall, TRUE, JsonError(body), k)
          /\ UNCHANGED conversationHistory
  /\ UNCHANGED << db, window_db, window_auth, currentUser, messageHandler,
                  isOnline, now, rateLimitData, offlineQueue, storedQueue,
                  chat, store, calls, allowedLog, lastCheck, passes, nextId,
                  drainLog, conversationHistoryByLanguage,
                  currentActiveLanguage, historyLoad,
                  userDoc, today, streakCalls, dawn >>

NextAI ==
  \/ InitializeApp
  \/ \E u \in Users : SignIn(u)
  \/ SignOut
  \/ \E l \in AILanguages, key \in ApiKeys : GetAIResponse(Hola, l, key)
  \/ \E answer \in FetchAnswers : FetchSettles(answer)
  \/ \E readable \in BOOLEAN : ErrorTextSettles(readable)
  \/ \E body \in JsonBodies : JsonSettles(body)

\* getAIResponse and the session around it
SpecAI == InitBound /\ [][NextAI]_vars

\* ------------------------------------------------------------- updateStreak
\* the day during which the local clock is put forward an hour
SpringForwardDay == 3

\* hours from the local midnight of day d to the next local midnight
DayHours(d) == IF d = SpringForwardDay THEN 23 ELSE 24

\* new Date(year, month, date) of day d, in hours since that of day 1
RECURSIVE Midnight(_)
Midnight(d) == IF d <= 1 THEN 0 ELSE Midnight(d - 1) + DayHours(d - 1)

\* updateStreak after its read, on day `day`: whether it writes, and the
\* streak it writes.  diffDays is (todayMidnight - lastStreakMidnight) /
\* (1000 * 60 * 60 * 24), compared with === 0, === 1 and > 1
StreakDecision(doc, day) ==
  IF ~doc.exists THEN [write |-> FALSE, streak |-> 0]
  ELSE IF doc.lastStreakUpdate # 0
  THEN LET diffHours == Midnight(day) - Midnight(doc.lastStreakUpdate)
       IN IF diffHours = 0 THEN [write |-> FALSE, streak |-> 0]
          ELSE IF diffHours = 24 THEN [write |-> TRUE, streak |-> doc.streak + 1]
          ELSE IF diffHours > 24 THEN [write |-> TRUE, streak |-> 1]
          ELSE [write |-> FALSE, streak |-> 0]
  ELSE [write |-> TRUE, streak |-> 1]

\* updateStreak() up to its userRef.get(); it returns at once without a
\* database or a user
CallUpdateStreak(c) ==
  /\ streakCalls[c].pc \in {"idle", "done"}
  /\ streakCalls' = [streakCalls EXCEPT ![c] =
       IF ~db \/ currentUser = NoUser
       THEN [pc |-> "done", streak |-> 0, result |-> "returned"]
       ELSE [pc |-> "reading", streak |-> 0, result |-> "none"]]
  /\ UNCHANGED << db, window_db, window_auth, currentUser, messageHandler,
                  isOnline, now, rateLimitData, offlineQueue, storedQueue,
                  chat, store, calls, allowedLog, lastCheck, passes, nextId,
                  drainLog, conversationHistoryByLanguage,
                  currentActiveLanguage, historyLoad, conversationHistory,
                  aiCall, userDoc, today, dawn >>

\* await userRef.get() settles: a rejection ends the call; otherwise the
\* call decides on the profile it read and starts its update, if any
StreakReadSettles(c, resolved) ==
  /\ streakCalls[c].pc = "reading"
  /\ LET d == StreakDecision(userDoc, today)
     IN streakCalls' = [streakCalls EXCEPT ![c] =
          IF ~resolved
          THEN [pc |-> "done", streak |-> 0, result |-> "failed"]
          ELSE IF ~userDoc.exists
          THEN [pc |-> "done", streak |-> 0, result |-> "no profile"]
          ELSE IF d.write
          THEN [pc |-> "writing", streak |-> d.streak, result |-> "none"]
          ELSE [pc |-> "done", streak |-> 0, result |-> "unchanged"]]
  /\ UNCHANGED << db, window_db, window_auth, currentUser, messageHandler,
                  isOnline, now, rateLimitData, offlineQueue, storedQueue,
                  chat, store, calls, allowedLog, lastCheck, passes, nextId,
                  drainLog, conversationHistoryByLanguage,
                  currentActiveLanguage, historyLoad, conversationHistory,
                  aiCall, userDoc, today, dawn >>

\* await userRef.update({'stats.streak': ..., 'stats.lastStreakUpdate':
\* serverTimestamp()}) settles
StreakWriteSettles(c, resolved) ==
  /\ streakCalls[c].pc = "writing"
  /\ IF resolved
     THEN /\ userDoc' = [userDoc EXCEPT !.streak = streakCalls[c].streak,
                                        !.lastStreakUpdate = today]
          /\ dawn' = [dawn EXCEPT !.changes =
                        IF streakCalls[c].streak # userDoc.streak
                        THEN @ + 1 ELSE @]
          /\ streakCalls' = [streakCalls EXCEPT ![c] =
                               [@ EXCEPT !.pc = "done", !.result = "written"]]
     ELSE /\ streakCalls' = [streakCalls EXCEPT ![c] =
                               [@ EXCEPT !.pc = "done", !.result = "failed"]]
          /\ UNCHANGED << userDoc, dawn >>
  /\ UNCHANGED << db, window_db, window_auth, currentUser, messageHandler,
                  isOnline, now, rateLimitData, offlineQueue, storedQueue,
                  chat, store, calls, allowedLog, lastCheck, passes, nextId,
                  drainLog, conversationHistoryByLanguage,
                  currentActiveLanguage, historyLoad, conversationHistory,
                  aiCall, today >>

\* local midnight passes while no updateStreak call is in progress
NextDay ==
  /\ today < MaxDays
  /\ \A c \in StreakCallIds : streakCalls[c].pc \in {"idle", "done"}
  /\ today' = today + 1
  /\ streakCalls' = [c \in StreakCallIds |-> IdleStreakCall]
  /\ dawn' = [doc |-> userDoc, changes |-> 0]
  /\ UNCHANGED << db, window_db, window_auth, currentUser, messageHandler,
                  isOnline, now, rateLimitData, offlineQueue, storedQueue,
                  chat, store, calls, allowedLog, lastCheck, passes, nextId,
                  drainLog, conversationHistoryByLanguage,
                  currentActiveLanguage, historyLoad, conversationHistory,
                  aiCall, userDoc >>

\* a page whose user has no profile yet or a new one
InitStreak ==
  /\ db = FALSE
  /\ window_db = FALSE
  /\ window_auth = FALSE
  /\ currentUser = NoUser
  /\ messageHandler = FALSE
  /\ isOnline = TRUE
  /\ now = 0
  /\ rateLimitData = <<>>
  /\ offlineQueue = <<>>
  /\ storedQueue = <<>>
  /\ chat = <<>>
  /\ store = <<>>
  /\ calls = [c \in CallIds |-> IdleCall]
  /\ allowedLog = <<>>
  /\ lastCheck = NoCheck
  /\ passes = [p \in PassIds |-> IdlePass]
  /\ nextId = 1
  /\ drainLog = <<>>
  /\ conversationHistoryByLanguage = NoHistory
  /\ currentActiveLanguage = "Spanish"
  /\ historyLoad = NoLoad
  /\ conversationHistory = <<>>
  /\ aiCall = NoAICall
  /\ userDoc \in InitialProfiles
  /\ today = 1
  /\ streakCalls = [c \in StreakCallIds |-> IdleStreakCall]
  /\ dawn = [doc |-> userDoc, changes |-> 0]

NextStreak ==
  \/ InitializeApp
  \/ \E u \in Users : SignIn(u)
  \/ \E c \in StreakCallIds : CallUpdateStreak(c)
  \/ \E c \in StreakCallIds, resolved \in BOOLEAN : StreakReadSettles(c, resolved)
  \/ \E c \in StreakCallIds, resolved \in BOOLEAN : StreakWriteSettles(c, resolved)
  \/ NextDay

SpecStreak == InitStreak /\ [][NextStreak]_vars

\* ------------------------------------------------------------------ claims
Done(c) == calls[c].pc = "done"

Valid(c) == validateMessageInputs(calls[c].message, calls[c].sender) = "ok"

\* the invocation was submitted and ran with a signed-in user, an initialised
\* database and unchanged connectivity
Steady(c) == calls[c].auth0 /\ ~calls[c].envChanged

\* C1: a new message "Hola" from the user, submitted online by a signed-in
\* user with the database initialised and rate-limit budget left, passes
\* validation, is displayed unchanged, gets exactly one remote write and no
\* offline-queue entry.
C1_HolaWrittenOnce ==
  \A c \in CallIds :
    ( /\ Done(c)
      /\ calls[c].message = Str(Hola)
      /\ calls[c].sender = "user"
      /\ calls[c].shouldAutoSpeak
      /\ calls[c].online0
      /\ Steady(c)
      /\ ~calls[c].windowFull )
    => ( /\ calls[c].result = "true"
         /\ calls[c].displayed
         /\ calls[c].text = Hola
         /\ calls[c].attempts = 1
         /\ calls[c].queued = 0 )

\* C2: a message displayed from stored history (shouldAutoSpeak = false) is
\* never sent to the store and never queued, whatever the message, sender,
\* connectivity and authentication.
C2_HistoryNeverPersisted ==
  \A c \in CallIds :
    ~calls[c].shouldAutoSpeak
    => ( /\ calls[c].pc \notin {"adding", "updating", "delaying"}
         /\ calls[c].attempts = 0
         /\ calls[c].writes = 0
         /\ calls[c].queued = 0
         /\ calls[c].saveIndicator = "none" )

\* a history message was displayed while a new message would have been saved
C2_Witness ==
  \E c \in CallIds :
    /\ Done(c) /\ ~calls[c].shouldAutoSpeak /\ calls[c].displayed
    /\ calls[c].online0 /\ Steady(c) /\ canSaveToDatabase

\* C3 as stated: the new message submitted on a full window is reported as
\* rate-limited, is still displayed, and no persistence is attempted.
C3_DeniedStillDisplayed ==
  \A c \in CallIds :
    (Done(c) /\ Valid(c) /\ calls[c].shouldAutoSpeak /\ calls[c].windowFull)
    => ( /\ calls[c].result = "false"
         /\ calls[c].error = "Rate limit exceeded"
         /\ calls[c].displayed
         /\ calls[c].attempts = 0
         /\ calls[c].queued = 0 )

\* C3 amended: the new message submitted when maxMessages unexpired
\* timestamps are stored is reported as rate-limited (addMessage resolves to
\* false after reporting the error), is not displayed, and no persistence
\* (remote write or offline enqueue) is attempted.
C3_DeniedNotDisplayed ==
  \A c \in CallIds :
    (Valid(c) /\ calls[c].shouldAutoSpeak /\ calls[c].windowFull
       /\ calls[c].pc # "idle")
    => ( /\ Done(c)
         /\ calls[c].result = "false"
         /\ calls[c].error = "Rate limit exceeded"
         /\ ~calls[c].displayed
         /\ ~calls[c].stamped
         /\ calls[c].attempts = 0
         /\ calls[c].queued = 0 )

\* the 21st new message of a window was submitted
C3_Witness ==
  \E c \in CallIds :
    /\ Done(c) /\ Valid(c) /\ calls[c].shouldAutoSpeak /\ calls[c].windowFull
    /\ Len(FilterWindow(rateLimitData, now)) = maxMessages

\* C4: displaying a history message (shouldAutoSpeak = false) leaves the
\* rate-limit window unchanged and is never denied: the message is displayed.
C4_HistoryBypassesRateLimit ==
  \A c \in CallIds :
    (Done(c) /\ Valid(c) /\ ~calls[c].shouldAutoSpeak)
    => (calls[c].displayed /\ ~calls[c].stamped)

\* C5: a new message submitted offline by a signed-in user whose remote
\* writes fail is displayed, gets exactly one queue entry with retryCount 0
\* and surfaces no error.
C5_OfflineSubmitQueued ==
  \A c \in CallIds :
    ( /\ Done(c) /\ Valid(c) /\ calls[c].shouldAutoSpeak
      /\ ~calls[c].windowFull
      /\ ~calls[c].online0 /\ Steady(c)
      /\ calls[c].writes = 0 )
    => ( /\ calls[c].displayed
         /\ calls[c].result = "true"
         /\ calls[c].queued = 1
         /\ Len(offlineQueue) >= 1
         /\ offlineQueue[Len(offlineQueue)].retryCount = 0 )

\* C6: a write the store rejected is treated as failed: the save is retried
\* and is not reported as successful while no write has succeeded.
C6_RejectionObserved ==
  \A c \in CallIds :
    (Done(c) /\ calls[c].rejected >= 1)
    => ( /\ calls[c].attempts >= 2
         /\ (calls[c].writes = 0 => calls[c].saveIndicator # "saved") )

\* C7: when every write attempt fails, saveWithRetry makes maxRetries + 1
\* attempts, waits baseDelay * backoffMultiplier^attempt before each retry,
\* and ends by throwing.
C7_RetriesThenFails ==
  \A c \in CallIds :
    (Done(c) /\ calls[c].rejected >= 1 /\ calls[c].writes = 0)
    => ( /\ calls[c].attempts = maxRetries + 1
         /\ calls[c].rejected = maxRetries + 1
         /\ calls[c].waited = [a \in 1..maxRetries |-> RetryDelay(a - 1)]
         /\ calls[c].saveIndicator = "failed" )

\* C8: a save call that succeeds has made exactly one successful remote
\* write, and no attempt follows a successful one.
C8_SuccessIsOneWrite ==
  \A c \in CallIds :
    (Done(c) /\ calls[c].saveIndicator = "saved")
    => (calls[c].writes = 1 /\ calls[c].attempts = calls[c].rejected + 1)

\* C9: when persistence of a new message fails while the handler is online,
\* addMessage resolves to false and reports the error, the message is not
\* queued and stays displayed.
C9_OnlineFailureSurfaced ==
  \A c \in CallIds :
    ( /\ Done(c) /\ calls[c].online0 /\ Steady(c)
      /\ calls[c].rejected >= 1 /\ calls[c].writes = 0 )
    => ( /\ calls[c].result = "false"
         /\ calls[c].error = "Failed to save message"
         /\ calls[c].queued = 0
         /\ calls[c].displayed )

\* C10: the calls that checkRateLimit allows number at most maxMessages in
\* every interval of windowMs, and a call is denied exactly when maxMessages
\* allowed calls lie less than windowMs before it; so from an empty window
\* 20 calls within the window are allowed and the 21st is denied.
C10_WindowCap ==
  /\ \A i \in DOMAIN allowedLog :
       Cardinality({j \in DOMAIN allowedLog :
                      /\ allowedLog[i] <= allowedLog[j]
                      /\ allowedLog[j] < allowedLog[i] + windowMs})
         <= maxMessages
  /\ lastCheck.made => (lastCheck.allowed <=> lastCheck.recent < maxMessages)

\* 20 calls were allowed within one window and the 21st was denied
C10_Witness ==
  /\ lastCheck.made /\ ~lastCheck.allowed
  /\ Len(allowedLog) = maxMessages
  /\ now < windowMs
\* the number of consecutive checkRateLimit calls at time t, starting from
\* the stored timestamps ts, that are allowed before the first denial
RECURSIVE AllowedBeforeDenial(_, _)
AllowedBeforeDenial(ts, t) ==
  LET r == checkRateLimit(ts, t)
  IN IF r.allowed THEN 1 + AllowedBeforeDenial(r.timestamps, t) ELSE 0

\* the recorded timestamps that are less than windowMs old at time t
Unexpired(ts, t) == {i \in DOMAIN ts : t - ts[i] < windowMs}

\* C11: at any moment, with no further time passing, the number of
\* checkRateLimit calls allowed before the next denial is maxMessages minus
\* the number of recorded timestamps less than windowMs old: every timestamp
\* that has become windowMs old or older frees one unit of capacity.
C11_CapacityFreed ==
  messageHandler =>
    AllowedBeforeDenial(rateLimitData, now)
      = maxMessages - Cardinality(Unexpired(rateLimitData, now))

\* a full window of which some timestamps, and not all, have expired
C11_Witness ==
  /\ Len(rateLimitData) = maxMessages
  /\ Cardinality(Unexpired(rateLimitData, now)) \in 1..(maxMessages - 1)
  /\ lastCheck.made
\* C12: validateMessageInputs throws exactly when the message is not a
\* string, is empty or consists of whitespace only, is longer than 5000
\* characters, or the sender is neither 'user' nor 'ai'; it returns normally
\* on every other input, and it changes no state of the handler or the page.
C12_ValidatorExact ==
  \A c \in CallIds :
    calls[c].pc = "validated"
    => LET m == calls[c].message
           s == calls[c].sender
           bad == \/ m.type # "string"
                  \/ Len(m.chars) = 0
                  \/ ~(\E i \in DOMAIN m.chars :
                         m.chars[i] \notin {" ", "\t", "\n", "\r"})
                  \/ Len(m.chars) > 5000
                  \/ ~(s = "user" \/ s = "ai")
       IN /\ (calls[c].result = "thrown") <=> bad
          /\ (calls[c].result = "returned") <=> ~bad
          /\ rateLimitData = <<>> /\ chat = <<>> /\ store = <<>>
          /\ offlineQueue = <<>> /\ storedQueue = <<>>

\* a message of exactly 5000 characters was accepted
C12_Witness ==
  \E c \in CallIds :
    /\ calls[c].pc = "validated"
    /\ calls[c].result = "returned"
    /\ Len(calls[c].message.chars) = MaxMessageLength
\* C14: sanitizeMessage is idempotent: sanitizing the text it returned
\* returns that text unchanged.
C14_SanitizeIdempotent ==
  \A c \in CallIds :
    calls[c].pc = "sanitized"
    => sanitizeMessage(calls[c].text) = calls[c].text

\* pat occurs in s, in any letter case
Contains(s, pat) ==
  \E i \in 1..Len(s) : MatchesAt(SubSeq(s, i, Len(s)), pat)

\* C15: the text sanitizeMessage returns contains no forbidden URL scheme
\* prefix (javascript:, data:, vbscript:, file:, ftp:) in any letter case.
C15_NoSchemeLeft ==
  \A c \in CallIds :
    calls[c].pc = "sanitized"
    => \A k \in DOMAIN dangerousSchemes :
         ~Contains(calls[c].text, dangerousSchemes[k])
\* the arguments fail one of the validation rules
Invalid(message, sender) ==
  \/ message.type # "string"
  \/ IsBlank(message.chars)
  \/ Len(message.chars) > MaxMessageLength
  \/ sender \notin {"user", "ai"}

C16_DrainInEnqueueOrder ==
  \A i, j \in DOMAIN drainLog :
    i < j => drainLog[i].id <= drainLog[j].id
C18_SignOutThenHistoryOnce ==
  [][ /\ (currentUser # NoUser /\ currentUser' = NoUser)
         => (chat' = <<>> /\ conversationHistoryByLanguage' = NoHistory)
      /\ ( /\ historyLoad.pc = "reading"
           /\ historyLoad'.result = "loaded"
           /\ currentUser = historyLoad.uid )
         => LET InActive(doc) == /\ doc.uid = currentUser
                                 /\ DocLanguage(doc) = currentActiveLanguage
                stored == SelectSeq(store, InActive)
            IN /\ Len(chat') = Len(stored)
               /\ \A k \in DOMAIN chat' \cap DOMAIN stored :
                    /\ chat'[k].sender = stored[k].sender
                    /\ chat'[k].message = sanitizeMessage(stored[k].message)
               /\ store' = store
               /\ calls' = calls
               /\ offlineQueue' = offlineQueue ]_vars
\* C19: every message in the chat container and every conversation document
\* in the store has a text that is not blank and has at most 5000
\* characters, and a sender that is 'user' or 'ai'.
C19_ShownAndStoredWellFormed ==
  /\ \A k \in DOMAIN chat :
       /\ ~IsBlank(chat[k].message)
       /\ Len(chat[k].message) <= MaxMessageLength
       /\ chat[k].sender \in {"user", "ai"}
  /\ \A k \in DOMAIN store :
       /\ ~IsBlank(store[k].message)
       /\ Len(store[k].message) <= MaxMessageLength
       /\ store[k].sender \in {"user", "ai"}

\* the texts listed for a target language, or the default texts about it
\* when the language has no list
CannedFor(targetLanguage) ==
  IF targetLanguage \in FallbackLanguages
  THEN { [kind |-> "canned", list |-> targetLanguage, index |-> i,
          about |-> targetLanguage] : i \in 1..3 }
  ELSE { [kind |-> "canned", list |-> "default", index |-> i,
          about |-> targetLanguage] : i \in 1..3 }

\* C20: getAIResponse never rejects, and when the request to the model
\* failed (network error, non-OK status, malformed response) it resolves
\* with one of the canned responses of the target language, or with one
\* of the default list when the target language has no list.
C20_FailureResolvesCanned ==
  /\ aiCall.settled # "rejected"
  /\ (aiCall.pc = "done" /\ aiCall.failed) =>
       /\ aiCall.settled = "resolved"
       /\ aiCall.value \in CannedFor(aiCall.targetLanguage)

\* a failed request for a language without a list resolved with the last
\* default text
C20_Witness ==
  /\ aiCall.pc = "done"
  /\ aiCall.failed
  /\ aiCall.targetLanguage = "English"
  /\ aiCall.value = [kind |-> "canned", list |-> "default", index |-> 3,
                     about |-> "English"]

\* C21: drain passes never overlap: when a second 'online' event fires while
\* a pass is still awaiting a write, no queued message is written to the
\* store by both passes.
C21_NoEntryWrittenByTwoPasses ==
  \A i, j \in DOMAIN drainLog :
    drainLog[i].id = drainLog[j].id => drainLog[i].pass = drainLog[j].pass

\* C22: an item leaves the offline queue of a live handler only after a
\* write of that item was accepted by the store or its retryCount has
\* reached the ceiling of 5 (at the latest by the increment of the step that
\* removes it); a pass in which no write of the item succeeded leaves it
\* queued.
C22_RemovedOnlyAfterSuccess ==
  [][ messageHandler' =>
        \A k \in DOMAIN offlineQueue :
          (\A j \in DOMAIN offlineQueue' :
             offlineQueue'[j].id # offlineQueue[k].id)
          => \/ \E w \in DOMAIN drainLog' :
                  drainLog'[w].id = offlineQueue[k].id
             \/ offlineQueue[k].retryCount + 1 >= maxRetryCount ]_vars

\* the retryCount values of the entry with that id, in the queue q and in
\* the arrays that the running passes ps iterate
RetryCounts(q, ps, id) ==
  { q[k].retryCount : k \in {j \in DOMAIN q : q[j].id = id} }
  \cup UNION { { ps[r].arr[k].retryCount :
                   k \in {j \in DOMAIN ps[r].arr : ps[r].arr[j].id = id} } :
               r \in {x \in PassIds : ps[x].pc # "idle" /\ ~ps[x].live} }

\* pass p leaves the entry it is at: it goes on to the next entry or ends
LeavesEntry(p) ==
  /\ passes[p].pc \in {"adding", "updating"}
  /\ messageHandler'
  /\ passes'[p].pc = "idle" \/ passes'[p].idx # passes[p].idx

\* C24: during one drain pass each queued item gets exactly one write
\* attempt, and when that attempt fails (the store rejects the write) the
\* item's retryCount is higher by exactly 1 afterwards, unless the item
\* is dropped at the ceiling.
C24_OneAttemptFailureCounted ==
  [][ \A p \in PassIds :
        LeavesEntry(p) =>
          /\ passes[p].attempt = 0
          /\ (passes[p].pc = "adding" /\ drainLog' = drainLog) =>
               LET e == CurrentEntry(p)
               IN \/ RetryCounts(offlineQueue', passes', e.id)
                       = {e.retryCount + 1}
                  \/ e.retryCount + 1 >= maxRetryCount ]_vars

\* C25: after any checkRateLimit call returns, allowed or denied, the
\* timestamps kept in local storage hold none that is windowMs or more older
\* than the time of that call.
C25_StoredWindowFresh ==
  [][ (messageHandler /\ now' = now) =>
        \A k \in DOMAIN rateLimitData' :
          now - rateLimitData'[k] < windowMs ]_vars

\* a call has just been denied on a full window, after earlier timestamps
\* had expired and been dropped
C25_Witness ==
  /\ lastCheck.made
  /\ ~lastCheck.allowed
  /\ Len(allowedLog) > maxMessages
  /\ Len(rateLimitData) = maxMessages
  /\ Cardinality(Unexpired(rateLimitData, now)) = maxMessages

\* C26: a message queued for offline sync is only ever written to the store
\* under the namespace of the user who was signed in when it was queued,
\* also when that user signs out and another signs in before the drain.
C26_WrittenUnderSubmitter ==
  \A k \in DOMAIN drainLog :
    drainLog[k].queuedBy # NoUser => drainLog[k].uid = drainLog[k].queuedBy

\* C27: a message enqueued by queueForOfflineSync while a drain pass is in
\* progress is not lost: when that pass finishes, the message has been
\* written to the store or is still in the in-memory queue and in the saved
\* queue.
C27_EnqueuedDuringPassKept ==
  [][ \A p \in PassIds :
        (passes[p].pc # "idle" /\ passes'[p].pc = "idle" /\ messageHandler')
        => \A id \in passes[p].startId..(nextId - 1) :
             \/ \E w \in DOMAIN drainLog' : drainLog'[w].id = id
             \/ /\ \E k \in DOMAIN offlineQueue' : offlineQueue'[k].id = id
                /\ \E k \in DOMAIN storedQueue' : storedQueue'[k].id = id
    ]_vars

\* C28: a queued message is written to the store with the target language
\* recorded in its queue entry at enqueue time, whichever language is
\* selected when the drain pass runs.
C28_WrittenInQueuedLanguage ==
  \A k \in DOMAIN drainLog : drainLog[k].language = drainLog[k].queuedLanguage

\* C29: switching the active language from A to B and back to A with
\* selectLanguage, with nothing happening in between, shows A's conversation
\* with the same messages, the same text and the same order as before the
\* switch (and selectLanguage leaves the store alone).
C29_SwitchRoundTrip ==
  (currentUser # NoUser /\ \A c \in CallIds : calls[c].pc \notin Running) =>
    \A B \in Languages \ {currentActiveLanguage} :
      LET there == selectLanguage(Page, B, now)
          back == selectLanguage(there, currentActiveLanguage, now)
      IN back.chat = chat

\* the streak the claim gives the day: one more than at the start of the day
\* when the last update was on the previous day, otherwise 1
ClaimedStreak ==
  IF dawn.doc.lastStreakUpdate # 0 /\ dawn.doc.lastStreakUpdate = today - 1
  THEN dawn.doc.streak + 1
  ELSE 1

\* C30: the updateStreak calls of one calendar day, interleaved or not,
\* change the stored streak at most once; once a call of the day has read
\* the profile and run to its end and none is in progress, the streak is
\* one higher than at the start of the day (last update on the previous
\* day) or 1 (first update, or a gap of more than a day).
C30_StreakOncePerDay ==
  /\ dawn.changes <= 1
  /\ ( /\ \A c \in StreakCallIds : streakCalls[c].pc \in {"idle", "done"}
       /\ \E c \in StreakCallIds :
            streakCalls[c].result \in {"written", "unchanged"} )
     => userDoc.streak = ClaimedStreak

====
